---- MODULE Spec2Model ----
(***************************************************************************)
(* Verification / Commission / Site-Approval workflow of the RLPPTM        *)
(* template (modules/templates/RLPPTM/models/org.py).                      *)
(*                                                                         *)
(* The database tables are the state; every handler (form hook, service    *)
(* method) is one action.  Null values: NoDate for dates, "None" for       *)
(* strings, the empty sequence for a missing row.                          *)
(***************************************************************************)
EXTENDS Integers, Sequences, FiniteSets, TLC

(***************************************************************************)
(* Bounds                                                                  *)
(***************************************************************************)
MaxTime == 2
MaxCommissions == 2
MaxManagers == 1
MaxApprovals == 3
MaxInflight == 2

Orgs == {1, 2}
Sites == {1, 2, 3}
SiteOrg == (1 :> 1) @@ (2 :> 2) @@ (3 :> 1)

NoDate == -1
Absent == -2
Dates == 0..MaxTime

(***************************************************************************)
(* Organisation types and their tags                                       *)
(***************************************************************************)
TypeTags == (1 :> [VERIFREQ |-> "N", MINFOREQ |-> "N"]) @@
            (2 :> [VERIFREQ |-> "Y", MINFOREQ |-> "N"]) @@
            (3 :> [VERIFREQ |-> "N", MINFOREQ |-> "Y"])
TypeIds == DOMAIN TypeTags

VARIABLES utcnow, types, testgroup, managers, verification, commissions,
          location, approval, history, inflight

vars == <<utcnow, types, testgroup, managers, verification, commissions,
          location, approval, history, inflight>>

(***************************************************************************)
(* The database as one value, so that handlers compose                     *)
(***************************************************************************)
DB == [types |-> types, testgroup |-> testgroup, managers |-> managers,
       verification |-> verification, commissions |-> commissions,
       location |-> location, approval |-> approval, history |-> history,
       log |-> {}]

\* the tables get the values of db
CommitTables(db) ==
    /\ types' = db.types
    /\ testgroup' = db.testgroup
    /\ managers' = db.managers
    /\ verification' = db.verification
    /\ commissions' = db.commissions
    /\ location' = db.location
    /\ approval' = db.approval
    /\ history' = db.history

\* a request that runs from validation to its end in one step: no other
\* request is affected
Commit(db) ==
    /\ CommitTables(db)
    /\ inflight' = inflight

today(now) == now

(***************************************************************************)
(* get_dhash: falsy values all hash like "***"; sha256 taken as injective  *)
(***************************************************************************)
get_dhash(v) == IF v \in {"None", ""} THEN "***" ELSE v

(***************************************************************************)
(* TestProvider: organisation types                                        *)
(***************************************************************************)
verifreq(T) == \E t \in T : TypeTags[t].VERIFREQ = "Y"

minforeq(T) == \E t \in T : TypeTags[t].MINFOREQ = "Y"

\* hash over the sorted type ids: the id set itself (a one-element sequence,
\* so that it never equals the null dhash, the empty sequence)
provider_dhash(T) == <<T>>

(***************************************************************************)
(* TestProvider.check_mgrinfo                                              *)
(***************************************************************************)
DocTags == {"reg", "crc", "scp"}

\* variant: the tags keep their values
reset_all_keep(m, value) == m

reset_all(m, value) == [m EXCEPT !.reg = value, !.crc = value, !.scp = value]

\* one manager row: returns the row as left in the database and whether it
\* makes the organisation COMPLETE
check_manager(m, admin) ==
    LET vhash == m.pdata
        verified == m.dsh # 0
        m1 == IF ~m.dob THEN reset_all(m, "N/A") ELSE m
        acc1 == m.dob
        acc2 == acc1 /\ m.contact
        stale == acc2 /\ verified /\ m1.dsh # vhash
        m2 == IF stale
              THEN IF admin THEN [m1 EXCEPT !.dsh = vhash]
                            ELSE reset_all(m1, "N/A")
              ELSE m1
        acc3 == acc2 /\ ~(stale /\ ~admin)
        complete == acc3 /\ \A t \in DocTags : m2[t] = "APPROVED"
        m3 == IF complete
              THEN IF ~verified THEN [m2 EXCEPT !.dsh = vhash] ELSE m2
              ELSE IF verified THEN [m2 EXCEPT !.dsh = 0] ELSE m2
    IN  [row |-> m3, complete |-> complete]

check_mgrinfo_result(db, org, rows, res) ==
    [status |-> IF Len(rows) = 0 THEN "N/A"
                ELSE IF \E i \in DOMAIN rows : res[i].complete
                     THEN "COMPLETE" ELSE "REVISE",
     db |-> [db EXCEPT !.managers[org] = [i \in DOMAIN rows |-> res[i].row]]]

check_mgrinfo(db, org, admin) ==
    IF org \notin db.testgroup
    THEN [status |-> "None", db |-> db]
    ELSE check_mgrinfo_result(
            db, org, db.managers[org],
            [i \in DOMAIN db.managers[org] |->
                check_manager(db.managers[org][i], admin)])

(***************************************************************************)
(* TestProvider.verification_defaults / verification (lazy creation)       *)
(***************************************************************************)
\* variant: the manager information is ignored
is_accepted_orgtype_only(orgtype, mgrinfo) ==
    orgtype \in {"ACCEPT", "VERIFIED"}

is_accepted(orgtype, mgrinfo) ==
    orgtype \in {"ACCEPT", "VERIFIED"} /\ mgrinfo \in {"ACCEPT", "COMPLETE"}

\* variant: no distinction of organisations without types
default_orgtype_typed(T) ==
    IF verifreq(T) THEN "N/V" ELSE "ACCEPT"

default_orgtype(T) ==
    IF T # {} THEN (IF verifreq(T) THEN "N/V" ELSE "ACCEPT") ELSE "N/A"

\* check_mgrinfo() if minforeq else ACCEPT
required_mgrinfo(db, org, admin) ==
    IF minforeq(db.types[org]) THEN check_mgrinfo(db, org, admin)
    ELSE [status |-> "ACCEPT", db |-> db]

verification_defaults_of(orgtype, chk) ==
    [orgtype |-> orgtype, mgrinfo |-> chk.status,
     accepted |-> is_accepted(orgtype, chk.status), db |-> chk.db]

verification_defaults(db, org, admin) ==
    verification_defaults_of(default_orgtype(db.types[org]),
                             required_mgrinfo(db, org, admin))

\* the record gets the default values d and the given dhash
store_verification(d, org, dhash) ==
    [d.db EXCEPT !.verification[org] =
        <<[orgtype |-> d.orgtype, mgrinfo |-> d.mgrinfo,
           accepted |-> d.accepted, dhash |-> dhash]>>]

add_verification_defaults(db, org, admin) ==
    store_verification(verification_defaults(db, org, admin), org, <<>>)

\* the verification property: look up, create with defaults if missing
with_verification(db, org, admin) ==
    IF db.verification[org] # <<>> THEN db
    ELSE add_verification_defaults(db, org, admin)

(***************************************************************************)
(* Site approval table and its history                                     *)
(***************************************************************************)
status_fields == {"status", "mpav", "hygiene", "layout",
                  "public", "public_reason", "advice"}

SITE_REVIEW == {"mpav", "hygiene", "layout"}

Min(S) == CHOOSE x \in S : \A y \in S : x <= y

approval_ids(db, site) ==
    {i \in DOMAIN db.approval : db.approval[i].site_id = site}

\* id of the approval row of a site (first by id), 0 if there is none
lookup_approval(db, site) ==
    IF approval_ids(db, site) = {} THEN 0 ELSE Min(approval_ids(db, site))

add_approval_defaults(db, site) ==
    [db EXCEPT !.approval = Append(@,
        [site_id |-> site, organisation_id |-> SiteOrg[site], dhash |-> "None",
         status |-> "REVISE", mpav |-> "REVISE", hygiene |-> "REVISE",
         layout |-> "REVISE", public |-> "N", public_reason |-> "NEW",
         advice |-> "None"])]

\* the approval property: look up, create with defaults if missing
with_approval(db, site) ==
    IF lookup_approval(db, site) # 0 THEN db
    ELSE add_approval_defaults(db, site)

history_ids(db, site) ==
    {i \in DOMAIN db.history : db.history[i].site_id = site}

\* id of the newest history row of a site, 0 if there is none
last_history(db, site) ==
    IF history_ids(db, site) = {} THEN 0
    ELSE CHOOSE i \in history_ids(db, site) :
            \A j \in history_ids(db, site) :
                /\ db.history[j].timestmp <= db.history[i].timestmp
                /\ (db.history[j].timestmp = db.history[i].timestmp => j <= i)

snapshot(a, site, timestmp) ==
    [site_id |-> site, timestmp |-> timestmp, status |-> a.status,
     mpav |-> a.mpav, hygiene |-> a.hygiene, layout |-> a.layout,
     public |-> a.public, public_reason |-> a.public_reason,
     advice |-> a.advice]

\* no previous row p, or it differs from the live record a
history_changed(db, a, p) ==
    p = 0 \/ \E fn \in status_fields : db.history[p][fn] # a[fn]

insert_history(db, a, site, now) ==
    [db EXCEPT !.history = Append(@, snapshot(a, site, now)),
               !.log = @ \cup {"history_insert"}]

overwrite_history(db, a, site, p) ==
    [db EXCEPT !.history[p] = snapshot(a, site, @.timestmp),
               !.log = @ \cup {"history_update"}]

\* variant: a change is always appended as a new row
write_history_append(db, site, a, p, now) ==
    IF history_changed(db, a, p) THEN insert_history(db, a, site, now) ELSE db

\* variant: a change always overwrites the newest row
write_history_overwrite(db, site, a, p, now) ==
    IF history_changed(db, a, p)
    THEN IF p # 0 THEN overwrite_history(db, a, site, p)
         ELSE insert_history(db, a, site, now)
    ELSE db

\* update the newest row p if it is of this request, else add a new one
write_history(db, site, a, p, now) ==
    IF history_changed(db, a, p)
    THEN IF p # 0 /\ db.history[p].timestmp = now
         THEN overwrite_history(db, a, site, p)
         ELSE insert_history(db, a, site, now)
    ELSE db

update_approval_history(db, site, aid, now) ==
    write_history(db, site, db.approval[aid], last_history(db, site), now)

(***************************************************************************)
(* TestStation.update_all                                                  *)
(***************************************************************************)
\* variant: the overall status is not required to be APPROVED
update_all_match_dims_only(a, org, public, reason) ==
    /\ a.organisation_id = org
    /\ a.public # public
    /\ public = "Y" =>
          /\ \A k \in {"mpav", "hygiene"} : a[k] = "APPROVED"
          /\ a.public_reason = reason

\* variant: the sites of every organisation are selected
update_all_match_any_org(a, org, public, reason) ==
    /\ a.public # public
    /\ public = "Y" =>
          /\ a.status = "APPROVED"
          /\ \A k \in SITE_REVIEW : a[k] = "APPROVED"
          /\ a.public_reason = reason

update_all_match(a, org, public, reason) ==
    /\ a.organisation_id = org
    /\ a.public # public
    /\ public = "Y" =>
          /\ a.status = "APPROVED"
          /\ \A k \in SITE_REVIEW : a[k] = "APPROVED"
          /\ a.public_reason = reason

RECURSIVE update_histories(_, _, _)
update_histories(db, rows, now) ==
    IF rows = <<>> THEN db
    ELSE update_histories(
            update_approval_history(db, Head(rows),
                                    lookup_approval(db, Head(rows)), now),
            Tail(rows), now)

RECURSIVE matching_sites(_, _, _, _, _)
matching_sites(app, i, org, public, reason) ==
    IF i > Len(app) THEN <<>>
    ELSE (IF update_all_match(app[i], org, public, reason)
          THEN <<app[i].site_id>> ELSE <<>>)
         \o matching_sites(app, i + 1, org, public, reason)

update_all_row(a, public, reason) ==
    IF public = "Y"
    THEN [a EXCEPT !.public = "Y", !.public_reason = "None"]
    ELSE [a EXCEPT !.public = "N", !.public_reason = reason]

update_all_rows(db, org, public, reason) ==
    [db EXCEPT
        !.approval = [i \in DOMAIN @ |->
            IF update_all_match(@[i], org, public, reason)
            THEN update_all_row(@[i], public, reason) ELSE @[i]],
        !.log = @ \cup {"update_all_" \o public}]

update_all_result(db, rows, now) ==
    [db |-> update_histories(db, rows, now), num_updated |-> Len(rows)]

update_all(db, org, public, reason, now) ==
    update_all_result(update_all_rows(db, org, public, reason),
                      matching_sites(db.approval, 1, org, public, reason),
                      now)

(***************************************************************************)
(* TestProvider.suspend_commission / reinstate_commission                  *)
(***************************************************************************)
suspend_match(c, org) == c.organisation_id = org /\ c.status = "CURRENT"

suspend_rows(db, org, reason, now) ==
    [db EXCEPT
        !.commissions = [i \in DOMAIN @ |->
            IF suspend_match(@[i], org)
            THEN [@[i] EXCEPT !.status = "SUSPENDED",
                              !.status_date = today(now),
                              !.status_reason = reason]
            ELSE @[i]],
        !.log = IF \E i \in DOMAIN db.commissions :
                      suspend_match(db.commissions[i], org)
                THEN @ \cup {"notify_SUSPENDED"} ELSE @]

suspend_commission(db, org, reason, now) ==
    update_all(suspend_rows(db, org, reason, now),
               org, "N", "COMMISSION", now).db

\* variant: suspended commissions are selected whatever the reason
reinstate_match_any_reason(c, org, reason) ==
    /\ c.organisation_id = org
    /\ c.status = "SUSPENDED"

reinstate_match(c, org, reason) ==
    /\ c.organisation_id = org
    /\ c.status = "SUSPENDED"
    /\ c.status_reason = reason

reinstate_rows(db, org, reason, now) ==
    [db EXCEPT
        !.commissions = [i \in DOMAIN @ |->
            IF reinstate_match(@[i], org, reason)
            THEN [@[i] EXCEPT !.status = "CURRENT",
                              !.status_date = today(now),
                              !.status_reason = "None"]
            ELSE @[i]],
        !.log = IF \E i \in DOMAIN db.commissions :
                      reinstate_match(db.commissions[i], org, reason)
                THEN @ \cup {"notify_CURRENT"} ELSE @]

reinstate_commission(db, org, reason, now) ==
    update_all(reinstate_rows(db, org, reason, now),
               org, "Y", "COMMISSION", now).db

(***************************************************************************)
(* TestProvider.vhash / update_verification                                *)
(***************************************************************************)
\* the type hash differs from the stored one
provider_vhash_changed(db, org) ==
    provider_dhash(db.types[org]) # db.verification[org][1].dhash

\* the type hash has changed: reset the record to the defaults
reset_verification(db, org, admin) ==
    store_verification(verification_defaults(db, org, admin), org,
                       provider_dhash(db.types[org]))

\* the type hash is unchanged: re-check the manager information
recheck_verification(v, chk, org) ==
    [chk.db EXCEPT !.verification[org] =
        <<[v EXCEPT !.mgrinfo = chk.status,
                    !.accepted = is_accepted(v.orgtype, chk.status)]>>]

update_commissions(db, org, accepted, now) ==
    IF accepted THEN reinstate_commission(db, org, "N/V", now)
    ELSE suspend_commission(db, org, "N/V", now)

\* after the re-check, accepted is the value just computed and stored
update_commissions_rechecked(db, org, now) ==
    update_commissions(db, org, db.verification[org][1].accepted, now)

\* db holds the verification record; after a reset, accepted is the value
\* the record had before the update
update_verification_record(db, org, admin, now) ==
    IF provider_vhash_changed(db, org)
    THEN update_commissions(reset_verification(db, org, admin), org,
                            db.verification[org][1].accepted, now)
    ELSE update_commissions_rechecked(
            recheck_verification(db.verification[org][1],
                                 required_mgrinfo(db, org, admin), org),
            org, now)

update_verification(db0, org, admin, now) ==
    update_verification_record(with_verification(db0, org, admin),
                               org, admin, now)

(***************************************************************************)
(* Commission form hooks                                                   *)
(***************************************************************************)
active_statuses == {"CURRENT", "SUSPENDED"}

\* the stored values of the record, or the field defaults
load_commission(db, record_id, org) ==
    IF record_id # 0 THEN db.commissions[record_id]
    ELSE [organisation_id |-> org, date |-> Absent,
          end_date |-> NoDate, status |-> "CURRENT"]

form_data_of(form, rec, now) ==
    [organisation_id |-> rec.organisation_id,
     date |-> IF form.date # Absent THEN form.date
              ELSE IF rec.date # Absent THEN rec.date ELSE today(now),
     end_date |-> IF form.end_date # Absent THEN form.end_date
                  ELSE rec.end_date,
     status |-> IF form.status # "ABSENT" THEN form.status ELSE rec.status]

\* the record data the validation works on: form value, else the stored
\* value, else the field default
form_data(db, form, record_id, org, now) ==
    form_data_of(form, load_commission(db, record_id, org), now)

\* variant: a commission ending on the start date is not seen as overlapping
overlaps_strict(c, organisation_id, start, end) ==
    /\ c.status \in active_statuses
    /\ c.organisation_id = organisation_id
    /\ (c.end_date = NoDate \/ c.end_date > start)
    /\ (end # NoDate => c.date <= end)

overlaps(c, organisation_id, start, end) ==
    /\ c.status \in active_statuses
    /\ c.organisation_id = organisation_id
    /\ (c.end_date = NoDate \/ c.end_date >= start)
    /\ (end # NoDate => c.date <= end)

end_before_start(form, data) ==
    /\ form.end_date # Absent
    /\ data.end_date # NoDate
    /\ data.end_date <= data.date

overlap_exists(db, record_id, data) ==
    /\ data.status \in active_statuses
    /\ \E i \in DOMAIN db.commissions :
          /\ i # record_id
          /\ overlaps(db.commissions[i], data.organisation_id,
                      data.date, data.end_date)

overlap_fields(form) ==
    (IF form.date # Absent THEN {"date"} ELSE {}) \cup
    (IF form.end_date # Absent THEN {"end_date"} ELSE {}) \cup
    (IF form.date = Absent /\ form.end_date = Absent THEN {"status"} ELSE {})

\* the verification is looked up (and created) for a submitted CURRENT
needs_verification(form, data) ==
    form.status # "ABSENT" /\ data.status = "CURRENT"

not_verified(db, form, data) ==
    /\ needs_verification(form, data)
    /\ ~db.verification[data.organisation_id][1].accepted

past_end_date(form, data, now) ==
    /\ form.status # "ABSENT"
    /\ data.end_date # NoDate /\ data.end_date <= today(now)
    /\ data.status \in active_statuses

reason_missing(form, data) ==
    /\ form.status # "ABSENT"
    /\ data.status = "SUSPENDED"
    /\ form.status_reason \in {"None", ""}

validate_status(db, form, data, now) ==
    [errors |->
        (IF not_verified(db, form, data) \/ past_end_date(form, data, now)
         THEN {"status"} ELSE {}) \cup
        (IF ~past_end_date(form, data, now) /\ reason_missing(form, data)
         THEN {"status_reason"} ELSE {}),
     db |-> db]

validate_commission(db, form, record_id, data, admin, now) ==
    IF end_before_start(form, data)
    THEN [errors |-> {"end_date"}, db |-> db]
    ELSE IF overlap_exists(db, record_id, data)
    THEN [errors |-> overlap_fields(form), db |-> db]
    ELSE validate_status(
            IF needs_verification(form, data)
            THEN with_verification(db, data.organisation_id, admin)
            ELSE db,
            form, data, now)

commission_onvalidation(db, form, record_id, org, admin, now) ==
    validate_commission(db, form, record_id,
                        form_data(db, form, record_id, org, now), admin, now)

new_commission(org, now) ==
    [organisation_id |-> org, date |-> today(now), end_date |-> NoDate,
     status |-> "CURRENT", prev_status |-> "None", status_date |-> NoDate,
     status_reason |-> "None"]

apply_form(old, form) ==
    [old EXCEPT
        !.date = IF form.date # Absent THEN form.date ELSE @,
        !.end_date = IF form.end_date # Absent THEN form.end_date ELSE @,
        !.status = IF form.status # "ABSENT" THEN form.status ELSE @,
        !.status_reason = IF form.status_reason # "ABSENT"
                          THEN form.status_reason ELSE @]

\* the framework's write between the two hooks: insert with the field
\* defaults, or update of the submitted fields
write_commission(db, form, record_id, org, now) ==
    IF record_id # 0
    THEN [db |-> [db EXCEPT !.commissions[record_id] = apply_form(@, form)],
          id |-> record_id]
    ELSE [db |-> [db EXCEPT !.commissions =
                     Append(@, apply_form(new_commission(org, now), form))],
          id |-> Len(db.commissions) + 1]

(***************************************************************************)
(* Update dicts: functions from field names to values                      *)
(***************************************************************************)
EmptyDict == [k \in {} |-> "None"]

Put(u, k, v) == (k :> v) @@ u

Pop(u, k) == [x \in DOMAIN u \ {k} |-> u[x]]

Get(u, k) == IF k \in DOMAIN u THEN u[k] ELSE "None"

update_record(row, u) ==
    [fn \in DOMAIN row |-> IF fn \in DOMAIN u THEN u[fn] ELSE row[fn]]

(***************************************************************************)
(* commission_onaccept                                                     *)
(***************************************************************************)
\* the comparison of a null end date with today raises
onaccept_raises(record, accepted) == accepted /\ record.end_date = NoDate

onaccept_update(record, accepted, now) ==
    IF accepted
    THEN IF record.end_date < today(now)
         THEN Put(Put(EmptyDict, "status", "EXPIRED"), "status_reason", "None")
         ELSE EmptyDict
    ELSE IF record.status = "CURRENT"
    THEN Put(Put(EmptyDict, "status", "SUSPENDED"), "status_reason", "N/V")
    ELSE IF record.status \in {"CURRENT", "REVOKED", "EXPIRED"}
    THEN Put(EmptyDict, "status_reason", "None")
    ELSE EmptyDict

onaccept_new_status(record, update) ==
    IF "status" \in DOMAIN update THEN update["status"] ELSE record.status

onaccept_write(record, update, new_status, now) ==
    IF DOMAIN update = {} THEN record
    ELSE IF new_status # record.prev_status
    THEN [update_record(record, update) EXCEPT !.status_date = today(now),
                                               !.prev_status = new_status]
    ELSE update_record(record, update)

onaccept_cascade(db, org, new_status, status_change, now) ==
    IF status_change
    THEN [update_all(db, org, IF new_status = "CURRENT" THEN "Y" ELSE "N",
                     "COMMISSION", now).db
            EXCEPT !.log = @ \cup {"notify_" \o new_status}]
    ELSE db

onaccept_status(db, record_id, record, update, new_status, now) ==
    onaccept_cascade(
        [db EXCEPT !.commissions[record_id] =
            onaccept_write(record, update, new_status, now)],
        record.organisation_id, new_status,
        new_status # record.prev_status, now)

onaccept_record(db, record_id, record, update, now) ==
    onaccept_status(db, record_id, record, update,
                    onaccept_new_status(record, update), now)

onaccept_verified(db0, db, record_id, record, accepted, now) ==
    IF onaccept_raises(record, accepted)
    THEN [exception |-> TRUE, db |-> db0]
    ELSE [exception |-> FALSE,
          db |-> onaccept_record(db, record_id, record,
                                 onaccept_update(record, accepted, now), now)]

onaccept_provider(db0, db, record_id, record, now) ==
    onaccept_verified(db0, db, record_id, record,
                      db.verification[record.organisation_id][1].accepted,
                      now)

\* exception is TRUE when the hook raises
commission_onaccept(db0, record_id, admin, now) ==
    onaccept_provider(
        db0,
        with_verification(db0, db0.commissions[record_id].organisation_id,
                          admin),
        record_id, db0.commissions[record_id], now)

(***************************************************************************)
(* TestProvider.current_commission                                         *)
(***************************************************************************)
is_current(c, org, now) ==
    /\ c.organisation_id = org
    /\ c.status = "CURRENT"
    /\ c.date <= today(now)
    /\ (c.end_date = NoDate \/ c.end_date >= today(now))

current_commission(db, org, now) ==
    \E i \in DOMAIN db.commissions : is_current(db.commissions[i], org, now)

(***************************************************************************)
(* TestStation.vhash: integrity check against the stored location hash     *)
(***************************************************************************)
\* variant: the hash does not depend on the location
station_dhash_const(db, site) == get_dhash("None")

station_dhash(db, site) == get_dhash(db.location[site])

vhash_changed(a, vhash, admin) ==
    /\ a.status = "APPROVED"
    /\ a.dhash # "None"
    /\ a.dhash # vhash
    /\ ~admin

vhash_update(a) ==
    Put(Put([t \in {k \in SITE_REVIEW : a[k] = "APPROVED"} |-> "REVIEW"],
            "public", "N"),
        "status",
        IF \E t \in SITE_REVIEW : a[t] = "REVISE" THEN "REVISE" ELSE "REVIEW")

station_vhash(db, site, a, admin) ==
    [changed |-> vhash_changed(a, station_dhash(db, site), admin),
     update |-> IF vhash_changed(a, station_dhash(db, site), admin)
                THEN vhash_update(a) ELSE EmptyDict,
     vhash |-> station_dhash(db, site)]

(***************************************************************************)
(* TestStation.approval_workflow                                           *)
(***************************************************************************)
\* variants: only the first dimension is tested
all_tags_first(tags, v) == tags.mpav = v

any_tags_first(tags, v) == tags.mpav = v

all_tags(tags, v) == \A k \in SITE_REVIEW : tags[k] = v

any_tags(tags, v) == \E k \in SITE_REVIEW : tags[k] = v

set_public(pub) == Put(EmptyDict, "public", pub)

set_public_status(pub, st) == Put(set_public(pub), "status", st)

approval_workflow(tags) ==
    CASE tags.status = "REVISE" ->
           IF all_tags(tags, "APPROVED")
           THEN [update |-> set_public_status("Y", "APPROVED"), notify |-> TRUE]
           ELSE IF any_tags(tags, "REVIEW")
           THEN [update |-> set_public_status("N", "REVIEW"), notify |-> FALSE]
           ELSE [update |-> set_public("N"), notify |-> FALSE]
      [] tags.status = "READY" ->
           [update |->
               set_public_status("N", "REVIEW") @@
               (IF all_tags(tags, "APPROVED")
                THEN [k \in SITE_REVIEW |-> "REVIEW"]
                ELSE [k \in {t \in SITE_REVIEW : tags[t] = "REVISE"}
                         |-> "REVIEW"]),
            notify |-> FALSE]
      [] tags.status = "REVIEW" ->
           IF all_tags(tags, "APPROVED")
           THEN [update |-> set_public_status("Y", "APPROVED"), notify |-> TRUE]
           ELSE IF any_tags(tags, "REVIEW")
           THEN [update |-> set_public("N"), notify |-> FALSE]
           ELSE IF any_tags(tags, "REVISE")
           THEN [update |-> set_public_status("N", "REVISE"), notify |-> TRUE]
           ELSE [update |-> EmptyDict, notify |-> FALSE]
      [] tags.status = "APPROVED" ->
           IF any_tags(tags, "REVIEW")
           THEN [update |-> set_public_status("N", "REVIEW"), notify |-> FALSE]
           ELSE IF any_tags(tags, "REVISE")
           THEN [update |-> set_public_status("N", "REVISE"), notify |-> TRUE]
           ELSE [update |-> EmptyDict, notify |-> FALSE]
      [] OTHER -> [update |-> EmptyDict, notify |-> FALSE]

(***************************************************************************)
(* TestStation.update_approval                                             *)
(***************************************************************************)
automatic_reasons == {"NEW", "COMMISSION", "REVISE", "REVIEW"}

\* variant: no reason is set with the public-status
set_public_reason_none(update, appr, commissioned) == update

\* set/unset the reason for the public-status
set_public_reason(update, appr, commissioned) ==
    IF Get(update, "public") = "N"
    THEN Put(update, "public_reason",
             IF Get(update, "status") = "REVISE" THEN "REVISE" ELSE "REVIEW")
    ELSE IF Get(update, "public") = "Y" \/
            (Get(update, "public") = "None" /\ appr.public = "Y")
    THEN IF commissioned
         THEN Put(update, "public_reason", "None")
         ELSE Put(Put(update, "public", "N"), "public_reason", "COMMISSION")
    ELSE update

\* variant: the update is applied whatever the reason
keep_manual_reason_never(update, appr) == update

\* public = N with a non-automatic reason must not be overwritten
keep_manual_reason(update, appr) ==
    IF appr.public = "N" /\ appr.public_reason \notin automatic_reasons
    THEN Pop(Pop(update, "public"), "public_reason")
    ELSE update

\* the public/public_reason part of update_approval
public_reason_update(update, appr, commissioned) ==
    keep_manual_reason(set_public_reason(update, appr, commissioned), appr)

\* the data hash is kept only with status APPROVED
set_dhash(update, appr, vhash) ==
    Put(update, "dhash",
        IF (IF "status" \in DOMAIN update THEN update["status"]
            ELSE appr.status) = "APPROVED"
        THEN vhash ELSE "None")

approval_log(appr, vh, wf, update) ==
    (IF "public" \in DOMAIN update /\ update["public"] # appr.public
     THEN {"public_changed"} ELSE {}) \cup
    (IF ~vh.changed /\ wf.notify THEN {"notify_approval"} ELSE {}) \cup
    (IF vh.changed THEN {"vhash_changed"} ELSE {})

update_approval_write(db, site, aid, appr, vh, wf, update, now) ==
    [update_approval_history(
        [db EXCEPT !.approval[aid] =
            update_record(appr, set_dhash(update, appr, vh.vhash))],
        site, aid, now)
     EXCEPT !.log = @ \cup approval_log(appr, vh, wf, update)]

update_approval_record(db, site, aid, appr, vh, wf, commissioned, now) ==
    update_approval_write(
        db, site, aid, appr, vh, wf,
        public_reason_update(IF vh.changed THEN vh.update ELSE wf.update,
                             appr, commissioned),
        now)

update_approval_at(db, site, aid, admin, now) ==
    update_approval_record(
        db, site, aid, db.approval[aid],
        station_vhash(db, site, db.approval[aid], admin),
        approval_workflow(db.approval[aid]),
        current_commission(db, SiteOrg[site], now), now)

update_approval(db0, site, admin, now) ==
    update_approval_at(with_approval(db0, site), site,
                       lookup_approval(with_approval(db0, site), site),
                       admin, now)

(***************************************************************************)
(* TestStation constructed from the facility id                            *)
(***************************************************************************)
\* the site_id property: cached is _site_id (0 if not set), record_site the
\* site of the facility record that the property loads
site_id_property(cached, record_site) ==
    IF cached # 0 THEN cached
    ELSE (IF cached # 0 THEN record_site ELSE 0)

\* the approval property of a new object made from the facility id: the
\* lookup reads site_id before the record is loaded, the insert after
facility_approval(db, site) ==
    IF lookup_approval(db, site_id_property(0, site)) # 0 THEN db
    ELSE add_approval_defaults(db, site_id_property(site, site))

\* update_approval of a new object made from the facility id: it works on
\* the record its approval property holds
facility_update_approval(db0, site, admin, now) ==
    update_approval_at(
        facility_approval(db0, site), site,
        IF lookup_approval(db0, site_id_property(0, site)) # 0
        THEN lookup_approval(db0, site_id_property(0, site))
        ELSE Len(db0.approval) + 1,
        admin, now)

(***************************************************************************)
(* TestStationModel.site_approval_onaccept                                 *)
(***************************************************************************)
onaccept_public_reason(record) ==
    IF record.public = "Y" THEN [record EXCEPT !.public_reason = "None"]
    ELSE IF record.public = "N" /\ record.public_reason = "None"
    THEN [record EXCEPT !.public_reason = "OVERRIDE"]
    ELSE record

onaccept_organisation(record) ==
    [record EXCEPT !.organisation_id = SiteOrg[record.site_id]]

site_approval_onaccept(db, aid) ==
    [db EXCEPT !.approval[aid] =
        onaccept_organisation(onaccept_public_reason(@))]

(***************************************************************************)
(* Initial state: empty tables                                             *)
(***************************************************************************)
InitWith(groups) ==
    /\ utcnow = 0
    /\ types = [o \in Orgs |-> {}]
    /\ testgroup \in groups
    /\ managers = [o \in Orgs |-> <<>>]
    /\ verification = [o \in Orgs |-> <<>>]
    /\ commissions = <<>>
    /\ location = [s \in Sites |-> "a"]
    /\ approval = <<>>
    /\ history = <<>>
    /\ inflight = <<>>

(***************************************************************************)
(* Actions                                                                 *)
(***************************************************************************)
\* the next request arrives at a later time
Tick ==
    /\ utcnow < MaxTime
    /\ utcnow' = utcnow + 1
    /\ UNCHANGED <<types, testgroup, managers, verification, commissions,
                   location, approval, history, inflight>>

\* the DHASH tag is not user-editable: it keeps its value (0 if new)
manager_row(rows, i, m) ==
    [dob |-> m.dob, contact |-> m.contact, pdata |-> m.pdata,
     reg |-> m.reg, crc |-> m.crc, scp |-> m.scp,
     dsh |-> IF i <= Len(rows) THEN rows[i].dsh ELSE 0]

\* staff, person, contact and tag records of a manager are edited, or a
\* manager is added
EditManager(org, i, m) ==
    /\ i \in 1..(Len(managers[org]) + 1)
    /\ i <= MaxManagers
    /\ managers' = [managers EXCEPT ![org] =
                       IF i <= Len(@)
                       THEN [@ EXCEPT ![i] = manager_row(managers[org], i, m)]
                       ELSE Append(@, manager_row(managers[org], i, m))]
    /\ UNCHANGED <<utcnow, types, testgroup, verification, commissions,
                   location, approval, history, inflight>>

\* the facility's location is edited
ChangeLocation(site, v) ==
    /\ v # location[site]
    /\ location' = [location EXCEPT ![site] = v]
    /\ UNCHANGED <<utcnow, types, testgroup, managers, verification,
                   commissions, approval, history,
                   inflight>>

\* reading TestProvider.verification creates the record if missing
LookupVerification(org, admin) ==
    /\ verification[org] = <<>>
    /\ Commit(with_verification(DB, org, admin))
    /\ UNCHANGED utcnow

\* the organisation form's write: type links and, if submitted, orgtype
organisation_write(db, org, T, orgtype) ==
    IF orgtype # "ABSENT"
    THEN [db EXCEPT !.types[org] = T,
                    !.verification[org][1].orgtype = orgtype]
    ELSE [db EXCEPT !.types[org] = T]

\* organisation form: type links and (approver, if writable) the orgtype
\* field are written, the post-process calls update_verification
OrganisationSave(org, T, orgtype, admin) ==
    /\ orgtype # "ABSENT" =>
          /\ verification[org] # <<>>
          /\ verifreq(types[org])
          /\ verification[org][1].orgtype \in {"N/V", "VERIFIED"}
    /\ Commit(update_verification(organisation_write(DB, org, T, orgtype),
                                  org, admin, utcnow))
    /\ UNCHANGED utcnow

UpdateVerification(org, admin) ==
    /\ Commit(update_verification(DB, org, admin, utcnow))
    /\ UNCHANGED utcnow

SuspendCommission(org, reason) ==
    /\ Commit(suspend_commission(DB, org, reason, utcnow))
    /\ UNCHANGED utcnow

ReinstateCommission(org, reason) ==
    /\ Commit(reinstate_commission(DB, org, reason, utcnow))
    /\ UNCHANGED utcnow

\* an exception in onaccept rolls the request back to db
commission_accepted(db, a) ==
    IF a.exception THEN [db |-> db, result |-> "exception"]
    ELSE [db |-> a.db, result |-> "saved"]

commission_written(db, w, admin, now) ==
    commission_accepted(db, commission_onaccept(w.db, w.id, admin, now))

commission_validated(db, v, org, record_id, form, admin, now) ==
    IF v.errors # {} THEN [db |-> v.db, result |-> "form_error"]
    ELSE commission_written(
            db, write_commission(v.db, form, record_id, org, now), admin, now)

\* commission form: onvalidation, the write unless a form error was set,
\* onaccept
commission_save(db, org, record_id, form, admin, now) ==
    commission_validated(
        db, commission_onvalidation(db, form, record_id, org, admin, now),
        org, record_id, form, admin, now)

CommissionSave(org, record_id, form, admin) ==
    /\ record_id = 0 => Len(commissions) < MaxCommissions
    /\ record_id # 0 => /\ record_id \in DOMAIN commissions
                        /\ commissions[record_id].organisation_id = org
    /\ Commit(commission_save(DB, org, record_id, form, admin, utcnow).db)
    /\ UNCHANGED utcnow

\* a request for a commission save runs onvalidation; without a form error
\* it goes on to write its record, while other requests may run
BeginCommissionSave(org, record_id, form, admin) ==
    /\ Len(inflight) < MaxInflight
    /\ record_id # 0 => /\ record_id \in DOMAIN commissions
                        /\ commissions[record_id].organisation_id = org
    /\ CommitTables(commission_onvalidation(DB, form, record_id, org, admin,
                                            utcnow).db)
    /\ inflight' =
          IF commission_onvalidation(DB, form, record_id, org, admin,
                                     utcnow).errors = {}
          THEN Append(inflight, [organisation_id |-> org,
                                 record_id |-> record_id, form |-> form])
          ELSE inflight
    /\ UNCHANGED utcnow

\* a validated request writes its record and runs onaccept
FinishCommissionSave(k, admin) ==
    /\ k \in DOMAIN inflight
    /\ inflight[k].record_id = 0 => Len(commissions) < MaxCommissions
    /\ CommitTables(
          commission_written(
              DB, write_commission(DB, inflight[k].form, inflight[k].record_id,
                                   inflight[k].organisation_id, utcnow),
              admin, utcnow).db)
    /\ inflight' = SubSeq(inflight, 1, k - 1)
                     \o SubSeq(inflight, k + 1, Len(inflight))
    /\ UNCHANGED utcnow

\* the commission form as configure_commission offers it to an approver:
\* insert only for an accepted provider and without the status field; edit
\* only of a CURRENT or SUSPENDED commission, with the selectable statuses
ApproverCommissionSave(org, record_id, form) ==
    /\ verification[org] # <<>>
    /\ record_id = 0 =>
          /\ verification[org][1].accepted
          /\ form.status = "ABSENT"
    /\ record_id # 0 =>
          /\ record_id \in DOMAIN commissions
          /\ commissions[record_id].status \in {"CURRENT", "SUSPENDED"}
          /\ form.status \in
                (IF verification[org][1].accepted THEN {"CURRENT"} ELSE {})
                \cup {"SUSPENDED", "REVOKED", "ABSENT"}
    /\ CommissionSave(org, record_id, form, FALSE)

UpdateAll(org, public, reason) ==
    /\ Commit(update_all(DB, org, public, reason, utcnow).db)
    /\ UNCHANGED utcnow

UpdateApproval(site, admin) ==
    /\ Commit(update_approval(DB, site, admin, utcnow))
    /\ UNCHANGED utcnow

\* TestStation(facility_id=...).approval
FacilityApproval(site) ==
    /\ Len(approval) < MaxApprovals
    /\ Commit(facility_approval(DB, site))
    /\ UNCHANGED utcnow

\* TestStation(facility_id=...).update_approval()
FacilityUpdateApproval(site, admin) ==
    /\ Len(approval) < MaxApprovals
    /\ Commit(facility_update_approval(DB, site, admin, utcnow))
    /\ UNCHANGED utcnow

\* TestStation(site_id).approval
SiteApproval(site) ==
    /\ Commit(with_approval(DB, site))
    /\ UNCHANGED utcnow

table_defaults(site) ==
    [site_id |-> site, organisation_id |-> 0, dhash |-> "None",
     status |-> "REVISE", mpav |-> "REVISE", hygiene |-> "REVISE",
     layout |-> "REVISE", public |-> "N", public_reason |-> "REVISE",
     advice |-> "None"]

site_approval_insert(db, site) ==
    IF lookup_approval(db, site) # 0 THEN db
    ELSE [db EXCEPT !.approval = Append(@, table_defaults(site))]

site_approval_write(db, aid, form) ==
    site_approval_onaccept(
        [db EXCEPT !.approval[aid] = update_record(@, form)], aid)

\* site approval form: the submitted fields are written (insert with the
\* table defaults if the site has no record), then onaccept
site_approval_save(db, site, form) ==
    site_approval_write(site_approval_insert(db, site),
                        lookup_approval(site_approval_insert(db, site), site),
                        form)

SiteApprovalSave(site, form) ==
    /\ "status" \in DOMAIN form =>
          /\ lookup_approval(DB, site) # 0
          /\ approval[lookup_approval(DB, site)].status = "REVISE"
    /\ Commit(site_approval_save(DB, site, form))
    /\ UNCHANGED utcnow

(***************************************************************************)
(* Inputs                                                                  *)
(***************************************************************************)
Review == {"REVISE", "REVIEW", "APPROVED"}

\* forms an approver or an applicant can submit for a site approval
\* review forms: one representative of every multiset of three review values
\* (the workflow only tests whether all or any dimension has a value)
Rank == [REVISE |-> 0, REVIEW |-> 1, APPROVED |-> 2]

ReviewForms ==
    {f \in [mpav : Review, hygiene : Review, layout : Review] :
        Rank[f.mpav] <= Rank[f.hygiene] /\ Rank[f.hygiene] <= Rank[f.layout]}

PublicForms == {[public |-> "Y"], [public |-> "N"]}

AdviceForms == {[advice |-> "x"]}

StatusForms == {[status |-> "READY"], [status |-> "REVISE"]}

\* a commission form that grants a commission until MaxTime
GrantForm == [date |-> Absent, end_date |-> MaxTime, status |-> "ABSENT",
              status_reason |-> "ABSENT"]

(***************************************************************************)
(* SpecApproval: the approval workflow of one site within one request      *)
(* time, with a commission of the organisation granted or not              *)
(***************************************************************************)
InitApproval == InitWith({{}})

NextApproval ==
    \/ \E admin \in BOOLEAN : UpdateApproval(1, admin)
    \/ \E form \in ReviewForms \cup PublicForms \cup StatusForms :
          SiteApprovalSave(1, form)
    \/ \E v \in {"a", "b"} : ChangeLocation(1, v)
    \/ \E public \in {"Y", "N"} : UpdateAll(1, public, "COMMISSION")
    \/ OrganisationSave(1, {1}, "ABSENT", FALSE)
    \/ CommissionSave(1, 0, GrantForm, FALSE)

SpecApproval == InitApproval /\ [][NextApproval]_vars

(***************************************************************************)
(* SpecHistory: the approval history of one site over several requests     *)
(***************************************************************************)
HistoryForms ==
    {[mpav |-> "APPROVED", hygiene |-> "APPROVED", layout |-> "APPROVED"],
     [public |-> "N"], [advice |-> "x"]}

NextHistory ==
    \/ Tick
    \/ UpdateApproval(1, FALSE)
    \/ \E form \in HistoryForms : SiteApprovalSave(1, form)
    \/ \E public \in {"Y", "N"} : UpdateAll(1, public, "COMMISSION")
    \/ OrganisationSave(1, {1}, "ABSENT", FALSE)
    \/ CommissionSave(1, 0, GrantForm, FALSE)

SpecHistory == InitApproval /\ [][NextHistory]_vars

(***************************************************************************)
(* SpecCommission: the commissions of one organisation whose verification  *)
(* is accepted or not, depending on its types, at one request date         *)
(***************************************************************************)
\* forms that submit the dates only, and forms that submit the status only
DateForms ==
    [date : Dates \cup {Absent}, end_date : Dates \cup {NoDate, Absent},
     status : {"ABSENT"}, status_reason : {"ABSENT"}]

StatusChangeForms ==
    [date : {Absent}, end_date : {Absent},
     status : {"CURRENT", "SUSPENDED", "REVOKED"},
     status_reason : {"None", "OVERRIDE", "ABSENT"}]

CommissionForms == DateForms \cup StatusChangeForms

NextCommission ==
    \/ \E T \in {{1}, {2}} : OrganisationSave(1, T, "ABSENT", FALSE)
    \/ \E record_id \in 0..MaxCommissions, form \in CommissionForms :
          CommissionSave(1, record_id, form, FALSE)
    \/ \E reason \in {"N/V", "OVERRIDE"} : SuspendCommission(1, reason)
    \/ \E reason \in {"N/V", "OVERRIDE"} : ReinstateCommission(1, reason)

SpecCommission == InitApproval /\ [][NextCommission]_vars

(***************************************************************************)
(* SpecVerification: types, managers and verification of one organisation  *)
(***************************************************************************)
ManagerInputs ==
    [dob : BOOLEAN, contact : BOOLEAN, pdata : {1, 2},
     reg : {"N/A", "REVISE", "APPROVED"}, crc : {"APPROVED"},
     scp : {"APPROVED"}]

InitVerification == InitWith({{}, {1}})

NextVerification ==
    \/ \E admin \in BOOLEAN : LookupVerification(1, admin)
    \/ \E T \in SUBSET TypeIds, orgtype \in {"ABSENT", "N/V", "VERIFIED"},
          admin \in BOOLEAN : OrganisationSave(1, T, orgtype, admin)
    \/ \E admin \in BOOLEAN : UpdateVerification(1, admin)
    \/ \E i \in 1..MaxManagers, m \in ManagerInputs : EditManager(1, i, m)
    \/ CommissionSave(1, 0, GrantForm, FALSE)

SpecVerification == InitVerification /\ [][NextVerification]_vars

(***************************************************************************)
(* SpecCascade: verification, commission and site visibility of one        *)
(* organisation with one site, within one request time                     *)
(***************************************************************************)
ApproveForm ==
    [mpav |-> "APPROVED", hygiene |-> "APPROVED", layout |-> "APPROVED"]

NextCascade ==
    \/ \E T \in {{1}, {2}} : OrganisationSave(1, T, "ABSENT", FALSE)
    \/ UpdateVerification(1, FALSE)
    \/ \E record_id \in 0..1 : CommissionSave(1, record_id, GrantForm, FALSE)
    \/ SiteApprovalSave(1, ApproveForm)
    \/ UpdateApproval(1, FALSE)
    \/ SuspendCommission(1, "OVERRIDE")
    \/ ReinstateCommission(1, "OVERRIDE")
    \/ Tick

SpecCascade == InitApproval /\ [][NextCascade]_vars

(***************************************************************************)
(* Properties                                                              *)
(***************************************************************************)
Active(c) == c.status \in {"CURRENT", "SUSPENDED"}

\* closed intervals [date, end_date], a null end date being +infinity
Intersect(a, b) ==
    /\ (b.end_date = NoDate \/ a.date <= b.end_date)
    /\ (a.end_date = NoDate \/ b.date <= a.end_date)

FullyApproved(a) ==
    /\ a.status = "APPROVED"
    /\ a.mpav = "APPROVED" /\ a.hygiene = "APPROVED" /\ a.layout = "APPROVED"

HasCurrent(comms, org, now) ==
    \E i \in DOMAIN comms :
        /\ comms[i].organisation_id = org
        /\ comms[i].status = "CURRENT"
        /\ comms[i].date <= now
        /\ (comms[i].end_date = NoDate \/ comms[i].end_date >= now)

HistoryOf(h, site) == {i \in DOMAIN h : h[i].site_id = site}

\* the newest history row of the site carries the values of the live record
HistoryMatches(app, h, site) ==
    \E a \in DOMAIN app, i \in HistoryOf(h, site) :
        /\ app[a].site_id = site
        /\ \A j \in HistoryOf(h, site) : h[j].timestmp <= h[i].timestmp
        /\ \A fn \in status_fields : h[i][fn] = app[a][fn]

\* steps of the operations
UpdateVerificationStep ==
    \/ \E T \in SUBSET TypeIds, orgtype \in {"ABSENT", "N/V", "VERIFIED"},
          admin \in BOOLEAN : OrganisationSave(1, T, orgtype, admin)
    \/ \E admin \in BOOLEAN : UpdateVerification(1, admin)

CommissionSaveStep ==
    \E record_id \in 0..MaxCommissions,
       form \in CommissionForms \cup {GrantForm} :
        CommissionSave(1, record_id, form, FALSE)

SuspendReinstateStep ==
    \E reason \in {"N/V", "OVERRIDE"} :
        SuspendCommission(1, reason) \/ ReinstateCommission(1, reason)

UpdateApprovalStep == \E admin \in BOOLEAN : UpdateApproval(1, admin)

UpdateAllStep == \E public \in {"Y", "N"} : UpdateAll(1, public, "COMMISSION")

SiteApprovalSaveStep ==
    \E form \in ReviewForms \cup PublicForms \cup StatusForms \cup AdviceForms :
        SiteApprovalSave(1, form)

\* C1: every stored Verification record has
\* accepted = (orgtype in {ACCEPT, VERIFIED}) and (mgrinfo in {ACCEPT, COMPLETE}),
\* after lazy creation, update_verification and an approver's edit of orgtype
\* followed by update_verification.
C1_AcceptedInvariant ==
    \A o \in Orgs :
        verification[o] # <<>> =>
            LET v == verification[o][1]
            IN  v.accepted <=>
                  /\ (v.orgtype = "ACCEPT" \/ v.orgtype = "VERIFIED")
                  /\ (v.mgrinfo = "ACCEPT" \/ v.mgrinfo = "COMPLETE")

\* an approver has verified the type of an organisation whose manager
\* information is complete
C1_Witness ==
    /\ verification[1] # <<>>
    /\ verification[1][1].orgtype = "VERIFIED"
    /\ verification[1][1].mgrinfo = "COMPLETE"
    /\ verification[1][1].accepted
    /\ verification[1][1].dhash = <<{2, 3}>>

\* C2: after any sequence of commission saves, suspend_commission and
\* reinstate_commission, no two commissions of one organisation with status
\* CURRENT or SUSPENDED have overlapping [date, end_date] intervals.
C2_NoOverlap ==
    \A i, j \in DOMAIN commissions :
        (/\ i < j
         /\ commissions[i].organisation_id = commissions[j].organisation_id
         /\ Active(commissions[i]) /\ Active(commissions[j]))
        => ~Intersect(commissions[i], commissions[j])

\* two active commissions of the organisation exist side by side, the
\* second one saved after the first
C2_Witness ==
    /\ Len(commissions) = 2
    /\ Active(commissions[1]) /\ Active(commissions[2])
    /\ commissions[1].organisation_id = commissions[2].organisation_id
    /\ commissions[1].end_date # NoDate
    /\ commissions[1].date < commissions[1].end_date
    /\ commissions[1].end_date < commissions[2].date

\* C3: after a commission save, update_verification, suspend_commission,
\* reinstate_commission, update_all or update_approval, every site approval
\* with public = Y belongs to an organisation with a commission that is
\* CURRENT today.
C3_CommissionGate ==
    [][(UpdateVerificationStep \/ CommissionSaveStep \/ SuspendReinstateStep
           \/ UpdateAllStep \/ UpdateApprovalStep)
       => \A i \in DOMAIN approval' :
             approval'[i].public = "Y" =>
                HasCurrent(commissions', approval'[i].organisation_id,
                           utcnow')]_vars

C5_CurrentOnlyIfAccepted ==
    [][(UpdateVerificationStep \/ CommissionSaveStep \/ SuspendReinstateStep)
       => \A i \in DOMAIN commissions' :
             commissions'[i].status = "CURRENT" =>
                LET o == commissions'[i].organisation_id
                IN  verification'[o] # <<>> /\ verification'[o][1].accepted]_vars

\* C6: after update_verification, if the stored Verification has
\* accepted = false, the organisation has no CURRENT commission (each formerly
\* CURRENT one is SUSPENDED with reason N/V) and none of its sites is public
\* (each formerly public one has public = N, public_reason = COMMISSION).
C6_NotAcceptedSuspends ==
    [][(UpdateVerificationStep /\ ~verification'[1][1].accepted)
       => /\ \A i \in DOMAIN commissions' :
                commissions'[i].organisation_id = 1 =>
                   commissions'[i].status # "CURRENT"
          /\ \A i \in DOMAIN commissions :
                (commissions[i].organisation_id = 1 /\
                 commissions[i].status = "CURRENT")
                => /\ commissions'[i].status = "SUSPENDED"
                   /\ commissions'[i].status_reason = "N/V"
          /\ \A i \in DOMAIN approval' :
                approval'[i].organisation_id = 1 => approval'[i].public # "Y"
          /\ \A i \in DOMAIN approval :
                (approval[i].organisation_id = 1 /\ approval[i].public = "Y")
                => /\ approval'[i].public = "N"
                   /\ approval'[i].public_reason = "COMMISSION"]_vars

\* C7: a second update_approval right after a first one, with nothing changed
\* in between, leaves the approval record and the history as the first call
\* left them.
C7_UpdateApprovalIdempotent ==
    \A admin \in BOOLEAN :
        LET d1 == update_approval(DB, 1, admin, utcnow)
            d2 == update_approval(d1, 1, admin, utcnow)
        IN  d2.approval = d1.approval /\ d2.history = d1.history

\* C8: the history of a site never loses a row, and no two rows of one site
\* carry the same timestmp.
C8_HistoryMonotonic ==
    [][/\ \A s \in Sites :
             Cardinality(HistoryOf(history', s)) >=
             Cardinality(HistoryOf(history, s))
       /\ \A i, j \in DOMAIN history' :
             (i # j /\ history'[i].site_id = history'[j].site_id)
             => history'[i].timestmp # history'[j].timestmp]_vars

\* the site has history rows from different requests
C8_Witness ==
    \E i, j \in HistoryOf(history, 1) :
        /\ history[i].timestmp < history[j].timestmp
        /\ history[j].timestmp = utcnow
        /\ history[i].public # history[j].public

\* C9 as stated: no operation changes the field values of an existing
\* history row.
C9_HistoryRowsImmutable ==
    [][\A i \in DOMAIN history :
          i \in DOMAIN history' /\ history'[i] = history[i]]_vars

\* C9 as amended: no operation removes a history row or changes a row written
\* in an earlier request; a row carrying the timestamp of the running request
\* keeps its site and timestamp, its status fields may be overwritten.
C9_EarlierRowsImmutable ==
    [][\A i \in DOMAIN history :
          /\ i \in DOMAIN history'
          /\ history'[i].site_id = history[i].site_id
          /\ history'[i].timestmp = history[i].timestmp
          /\ history[i].timestmp # utcnow => history'[i] = history[i]]_vars

\* a row of an earlier request stands next to the row of the running
\* request, which carries the live values
C9_Witness ==
    /\ \E i, j \in HistoryOf(history, 1) :
          /\ history[i].timestmp < utcnow
          /\ history[j].timestmp = utcnow
          /\ history[i].advice # history[j].advice
    /\ HistoryMatches(approval, history, 1)

\* an existing site approval record differs in a status field after the step
StatusFieldsChanged ==
    \E i \in DOMAIN approval, fn \in status_fields :
        approval'[i][fn] # approval[i][fn]

\* C10: after update_approval, update_all or site_approval_onaccept has
\* changed the status fields of a site approval, the newest history row of
\* the site equals the live record in all status fields.
C10_HistoryFollowsRecord ==
    [][((UpdateApprovalStep \/ UpdateAllStep \/ SiteApprovalSaveStep)
        /\ StatusFieldsChanged)
       => HistoryMatches(approval', history', 1)]_vars

(***************************************************************************)
(* SpecStation: TestStation objects made from the site id or from the      *)
(* facility id                                                             *)
(***************************************************************************)
NextStation ==
    \/ SiteApproval(1)
    \/ FacilityApproval(1)
    \/ UpdateApproval(1, FALSE)
    \/ FacilityUpdateApproval(1, FALSE)
    \/ \E form \in HistoryForms : SiteApprovalSave(1, form)
    \/ Tick

SpecStation == InitApproval /\ [][NextStation]_vars

ApprovalsOf(app, site) == {i \in DOMAIN app : app[i].site_id = site}

StationStep ==
    \/ SiteApproval(1) \/ FacilityApproval(1)
    \/ \E admin \in BOOLEAN :
          UpdateApproval(1, admin) \/ FacilityUpdateApproval(1, admin)

\* C11: after the approval property has been read or update_approval has
\* run, on an object made from the site id or from the facility id, the site
\* has exactly one approval record.
C11_OneApprovalPerSite ==
    [][StationStep => Cardinality(ApprovalsOf(approval', 1)) = 1]_vars

(***************************************************************************)
(* SpecTerminal: commissions of one organisation over time, edited through *)
(* the approver's form                                                     *)
(***************************************************************************)
NextTerminal ==
    \/ \E T \in {{1}, {2}} : OrganisationSave(1, T, "ABSENT", FALSE)
    \/ \E record_id \in 0..MaxCommissions,
          form \in [date : {Absent}, end_date : {1, MaxTime, Absent},
                    status : {"ABSENT"}, status_reason : {"ABSENT"}]
                   \cup StatusChangeForms :
          ApproverCommissionSave(1, record_id, form)
    \/ SuspendCommission(1, "N/V")
    \/ ReinstateCommission(1, "N/V")
    \/ Tick

SpecTerminal == InitApproval /\ [][NextTerminal]_vars

\* the approver's form with status REVOKED was saved for the commission
RevokeSaved(record_id) ==
    \E form \in StatusChangeForms :
        /\ form.status = "REVOKED"
        /\ commission_save(DB, 1, record_id, form, FALSE, utcnow).result
              = "saved"
        /\ ApproverCommissionSave(1, record_id, form)

\* C12: a commission with stored status EXPIRED or REVOKED keeps its status
\* in every step, and a save that sets REVOKED leaves the record REVOKED
\* after commission_onaccept.
C12_TerminalStatuses ==
    [][/\ \A i \in DOMAIN commissions :
             commissions[i].status \in {"EXPIRED", "REVOKED"}
             => commissions'[i].status = commissions[i].status
       /\ \A record_id \in DOMAIN commissions :
             RevokeSaved(record_id)
             => commissions'[record_id].status = "REVOKED"]_vars

\* the verification property is read for an organisation without types and
\* without verification record
LazyCreationStep ==
    /\ types[1] = {}
    /\ \E admin \in BOOLEAN : LookupVerification(1, admin)

\* C13 (as stated): for an organisation with no organisation types, the
\* lazily created verification record has orgtype N/A, mgrinfo ACCEPT and
\* accepted = true.
C13_DefaultsAccepted ==
    [][LazyCreationStep =>
          /\ verification'[1][1].orgtype = "N/A"
          /\ verification'[1][1].mgrinfo = "ACCEPT"
          /\ verification'[1][1].accepted]_vars

\* C13 (amended): for an organisation with no organisation types, the lazily
\* created verification record has orgtype N/A, mgrinfo ACCEPT and
\* accepted = false.
C13_DefaultsNotAccepted ==
    [][LazyCreationStep =>
          /\ verification'[1][1].orgtype = "N/A"
          /\ verification'[1][1].mgrinfo = "ACCEPT"
          /\ ~verification'[1][1].accepted]_vars

\* an organisation without types has got its default verification record
C13_Witness ==
    /\ types[1] = {}
    /\ verification[1] # <<>>
    /\ verification[1][1].orgtype = "N/A"
    /\ verification[1][1].mgrinfo = "ACCEPT"
    /\ ~verification[1][1].accepted
    /\ verification[1][1].dhash = <<>>

(***************************************************************************)
(* SpecWorkflow: update_approval on a site approval record with any        *)
(* workflow status, any review values and either public value              *)
(***************************************************************************)
InitWorkflow ==
    /\ utcnow = 0
    /\ types = [o \in Orgs |-> {}]
    /\ testgroup = {}
    /\ managers = [o \in Orgs |-> <<>>]
    /\ verification = [o \in Orgs |-> <<>>]
    /\ commissions = <<>>
    /\ location = [s \in Sites |-> "a"]
    /\ \E status \in {"REVISE", "READY", "REVIEW", "APPROVED"},
          dims \in [SITE_REVIEW -> Review], public \in {"Y", "N"} :
          approval = <<[site_id |-> 1, organisation_id |-> SiteOrg[1],
                        dhash |-> "None", status |-> status,
                        mpav |-> dims["mpav"], hygiene |-> dims["hygiene"],
                        layout |-> dims["layout"], public |-> public,
                        public_reason |->
                            IF public = "Y" THEN "None" ELSE "REVIEW",
                        advice |-> "None"]>>
    /\ history = <<>>
    /\ inflight = <<>>

NextWorkflow ==
    \/ \E admin \in BOOLEAN : UpdateApproval(1, admin)
    \/ OrganisationSave(1, {1}, "ABSENT", FALSE)
    \/ CommissionSave(1, 0, GrantForm, FALSE)

SpecWorkflow == InitWorkflow /\ [][NextWorkflow]_vars

\* the review values of a record
Dims(tags) == {tags[k] : k \in SITE_REVIEW}

\* what the workflow is to return from the statuses REVISE, REVIEW, APPROVED
WorkflowTable(tags) ==
    CASE tags.status = "REVISE" ->
           IF Dims(tags) = {"APPROVED"}
           THEN [update |-> [status |-> "APPROVED", public |-> "Y"],
                 notify |-> TRUE]
           ELSE IF "REVIEW" \in Dims(tags)
           THEN [update |-> [status |-> "REVIEW", public |-> "N"],
                 notify |-> FALSE]
           ELSE [update |-> [public |-> "N"], notify |-> FALSE]
      [] tags.status = "REVIEW" ->
           IF Dims(tags) = {"APPROVED"}
           THEN [update |-> [status |-> "APPROVED", public |-> "Y"],
                 notify |-> TRUE]
           ELSE IF "REVIEW" \in Dims(tags)
           THEN [update |-> [public |-> "N"], notify |-> FALSE]
           ELSE [update |-> [status |-> "REVISE", public |-> "N"],
                 notify |-> TRUE]
      [] tags.status = "APPROVED" ->
           IF "REVIEW" \in Dims(tags)
           THEN [update |-> [status |-> "REVIEW", public |-> "N"],
                 notify |-> FALSE]
           ELSE IF "REVISE" \in Dims(tags)
           THEN [update |-> [status |-> "REVISE", public |-> "N"],
                 notify |-> TRUE]
           ELSE [update |-> <<>>, notify |-> FALSE]

\* C14: from the statuses REVISE, REVIEW and APPROVED, approval_workflow
\* returns the status, public value and notification of the transition table
\* for every combination of the three review dimensions, and no update of a
\* dimension.
C14_WorkflowTable ==
    \A a \in DOMAIN approval :
        approval[a].status \in {"REVISE", "REVIEW", "APPROVED"} =>
            /\ approval_workflow(approval[a]) = WorkflowTable(approval[a])
            /\ DOMAIN approval_workflow(approval[a]).update
                  \cap SITE_REVIEW = {}

\* update_approval has moved a record with a dimension to revise from
\* REVIEW to REVISE
C14_Witness ==
    /\ Len(history) = 1
    /\ approval[1].status = "REVISE"
    /\ approval[1].mpav = "APPROVED"
    /\ approval[1].hygiene = "REVISE"
    /\ approval[1].layout = "APPROVED"
    /\ approval[1].public = "N"
    /\ approval[1].public_reason = "REVISE"

\* the record after the update of approval_workflow
Workflowed(tags) == update_record(tags, approval_workflow(tags).update)

\* C15: from status READY, approval_workflow yields status REVIEW and public
\* N without notification; the resulting dimensions contain no REVISE and at
\* least one REVIEW: all three become REVIEW if all were APPROVED, otherwise
\* the dimensions that were REVISE become REVIEW and the others keep their
\* value.
C15_ReadyToReview ==
    \A a \in DOMAIN approval :
        approval[a].status = "READY" =>
            /\ Workflowed(approval[a]).status = "REVIEW"
            /\ Workflowed(approval[a]).public = "N"
            /\ ~approval_workflow(approval[a]).notify
            /\ "REVISE" \notin Dims(Workflowed(approval[a]))
            /\ "REVIEW" \in Dims(Workflowed(approval[a]))
            /\ \A k \in SITE_REVIEW :
                  Workflowed(approval[a])[k] =
                    IF Dims(approval[a]) = {"APPROVED"}
                       \/ approval[a][k] = "REVISE"
                    THEN "REVIEW" ELSE approval[a][k]
            /\ DOMAIN approval_workflow(approval[a]).update \subseteq
                  {"status", "public"} \cup SITE_REVIEW

\* update_approval has taken a READY record with one approved dimension to
\* REVIEW
C15_Witness ==
    /\ Len(history) = 1
    /\ approval[1].status = "REVIEW"
    /\ approval[1].mpav = "APPROVED"
    /\ approval[1].hygiene = "REVIEW"
    /\ approval[1].layout = "REVIEW"
    /\ approval[1].public = "N"

\* site 1 has an APPROVED record whose stored hash differs from the hash of
\* the location
HashOutdated ==
    /\ approval # <<>>
    /\ approval[1].status = "APPROVED"
    /\ approval[1].dhash # "None"
    /\ approval[1].dhash # get_dhash(location[1])

\* the integrity path: approved dimensions to REVIEW, public N, status from
\* the dimensions, stored hash cleared
IntegrityPath ==
    /\ \A k \in SITE_REVIEW :
          approval'[1][k] = IF approval[1][k] = "APPROVED" THEN "REVIEW"
                            ELSE approval[1][k]
    /\ approval'[1].public = "N"
    /\ approval'[1].status =
          IF "REVISE" \in Dims(approval[1]) THEN "REVISE" ELSE "REVIEW"
    /\ approval'[1].dhash = "None"

\* status and dimensions kept, stored hash replaced by the new hash
HashReplaced ==
    /\ \A k \in SITE_REVIEW \cup {"status"} : approval'[1][k] = approval[1][k]
    /\ approval'[1].dhash = get_dhash(location[1])

\* C16 (as stated): update_approval on an APPROVED record whose stored hash
\* differs from the location hash takes the integrity path for an actor
\* without the role ORG_GROUP_ADMIN, and keeps status and dimensions and
\* replaces the stored hash for an actor with the role.
C16_IntegrityPath ==
    [][HashOutdated =>
          /\ UpdateApproval(1, FALSE) => IntegrityPath
          /\ UpdateApproval(1, TRUE) => HashReplaced]_vars

\* C16 (amended): as C16, but for an actor with the role ORG_GROUP_ADMIN the
\* normal workflow runs: status and dimensions are kept and the stored hash
\* is replaced if all three dimensions are APPROVED; otherwise the status
\* becomes REVIEW or REVISE, the dimensions are kept and the stored hash is
\* cleared.
C16_IntegrityPathOrWorkflow ==
    [][HashOutdated =>
          /\ UpdateApproval(1, FALSE) => IntegrityPath
          /\ UpdateApproval(1, TRUE) =>
                IF Dims(approval[1]) = {"APPROVED"} THEN HashReplaced
                ELSE /\ approval'[1].status =
                          IF "REVIEW" \in Dims(approval[1]) THEN "REVIEW"
                          ELSE "REVISE"
                     /\ \A k \in SITE_REVIEW :
                           approval'[1][k] = approval[1][k]
                     /\ approval'[1].dhash = "None"]_vars

\* the location of an approved, public site was changed, and update_approval
\* by an actor without the role reduces the approval to REVIEW, takes the
\* site off the public list and clears the stored hash
C16_Witness ==
    /\ HashOutdated
    /\ location[1] = "b"
    /\ Dims(approval[1]) = {"APPROVED"}
    /\ approval[1].public = "Y"
    /\ update_approval(DB, 1, FALSE, utcnow).approval[1].status = "REVIEW"
    /\ Dims(update_approval(DB, 1, FALSE, utcnow).approval[1]) = {"REVIEW"}
    /\ update_approval(DB, 1, FALSE, utcnow).approval[1].public = "N"
    /\ update_approval(DB, 1, FALSE, utcnow).approval[1].dhash = "None"
    /\ update_approval(DB, 1, TRUE, utcnow).approval[1].dhash = "b"

\* site 1 was taken off the public list manually
ManuallyDelisted ==
    /\ approval # <<>>
    /\ approval[1].public = "N"
    /\ approval[1].public_reason \notin {"NEW", "COMMISSION", "REVISE", "REVIEW"}

\* C17: a site approval with public = N and a public_reason outside
\* {NEW, COMMISSION, REVISE, REVIEW} keeps its public and public_reason in
\* update_approval and in update_all with reason COMMISSION for either
\* public value.
C17_ManualReasonKept ==
    [][(ManuallyDelisted /\ (UpdateApprovalStep \/ UpdateAllStep)) =>
          /\ approval'[1].public = approval[1].public
          /\ approval'[1].public_reason = approval[1].public_reason]_vars

\* a fully approved site of a commissioned organisation stays off the public
\* list with reason OVERRIDE after update_approval has stored its hash
C17_Witness ==
    /\ ManuallyDelisted
    /\ approval[1].public_reason = "OVERRIDE"
    /\ FullyApproved(approval[1])
    /\ approval[1].dhash = "a"
    /\ HasCurrent(commissions, 1, utcnow)
    /\ HistoryMatches(approval, history, 1)
    /\ update_all(DB, 1, "Y", "COMMISSION", utcnow).num_updated = 0

(***************************************************************************)
(* SpecUpdateAll: update_all on the approval records of three sites, two   *)
(* of organisation 1 and one of organisation 2                             *)
(***************************************************************************)
\* approval records: approved or under review, listed or off the list for
\* a commission, a review or manually
ListedRecords(site) ==
    {[site_id |-> site, organisation_id |-> SiteOrg[site], dhash |-> "None",
      status |-> st, mpav |-> "APPROVED", hygiene |-> "APPROVED",
      layout |-> d, public |-> p[1], public_reason |-> p[2],
      advice |-> "None"] :
        st \in {"APPROVED", "REVIEW"}, d \in {"APPROVED", "REVIEW"},
        p \in {<<"Y", "None">>, <<"N", "COMMISSION">>, <<"N", "OVERRIDE">>,
               <<"N", "REVIEW">>}}

InitUpdateAll ==
    /\ utcnow = 0
    /\ types = [o \in Orgs |-> {}]
    /\ testgroup = {}
    /\ managers = [o \in Orgs |-> <<>>]
    /\ verification = [o \in Orgs |-> <<>>]
    /\ commissions = <<>>
    /\ location = [s \in Sites |-> "a"]
    /\ \E r1 \in ListedRecords(1), r2 \in ListedRecords(2),
          r3 \in ListedRecords(3) : approval = <<r1, r2, r3>>
    /\ history = <<>>
    /\ inflight = <<>>

NextUpdateAll ==
    \E org \in Orgs, public \in {"Y", "N"} : UpdateAll(org, public, "COMMISSION")

SpecUpdateAll == InitUpdateAll /\ [][NextUpdateAll]_vars

\* the sites update_all is to change
Selected(a, org, public, reason) ==
    /\ a.organisation_id = org
    /\ IF public = "Y"
       THEN /\ a.public = "N"
            /\ FullyApproved(a)
            /\ a.public_reason = reason
       ELSE a.public = "Y"

C19_EndAfterStart ==
    \A i \in DOMAIN commissions :
        commissions[i].end_date = NoDate
        \/ commissions[i].end_date > commissions[i].date

\* suspend_commission or reinstate_commission runs for organisation 1 and no
\* commission of the organisation matches
NoCommissionMatched ==
    \/ /\ \E reason \in {"N/V", "OVERRIDE"} : SuspendCommission(1, reason)
       /\ \A i \in DOMAIN commissions :
             ~(commissions[i].organisation_id = 1
               /\ commissions[i].status = "CURRENT")
    \/ \E reason \in {"N/V", "OVERRIDE"} :
          /\ ReinstateCommission(1, reason)
          /\ \A i \in DOMAIN commissions :
                ~(commissions[i].organisation_id = 1
                  /\ commissions[i].status = "SUSPENDED"
                  /\ commissions[i].status_reason = reason)

\* C20: when suspend_commission or reinstate_commission changes no
\* commission row, no site's public or public_reason changes (the update_all
\* cascade runs only when a row was changed).
C20_CascadeOnlyIfUpdated ==
    [][NoCommissionMatched =>
          /\ commissions' = commissions
          /\ \A i \in DOMAIN approval :
                /\ approval'[i].public = approval[i].public
                /\ approval'[i].public_reason = approval[i].public_reason]_vars

\* the commissions that differ between two commission tables
ChangedCommissions(before, after) ==
    {i \in DOMAIN before : after[i] # before[i]}

\* suspend_commission and reinstate_commission, for either organisation and
\* reason, change only the commissions they select
OnlySelectedChanged ==
    \A org \in Orgs, reason \in {"N/V", "OVERRIDE"} :
        /\ DOMAIN suspend_commission(DB, org, reason, utcnow).commissions
              = DOMAIN commissions
        /\ DOMAIN reinstate_commission(DB, org, reason, utcnow).commissions
              = DOMAIN commissions
        /\ \A i \in ChangedCommissions(commissions,
                   suspend_commission(DB, org, reason, utcnow).commissions) :
              /\ commissions[i].organisation_id = org
              /\ commissions[i].status = "CURRENT"
        /\ \A i \in ChangedCommissions(commissions,
                   reinstate_commission(DB, org, reason, utcnow).commissions) :
              /\ commissions[i].organisation_id = org
              /\ commissions[i].status = "SUSPENDED"
              /\ commissions[i].status_reason = reason

\* update_verification, whatever the types of the organisation, leaves a
\* commission suspended with reason OVERRIDE as it is
OverrideKept ==
    \A T \in {{1}, {2}}, i \in DOMAIN commissions :
        (OrganisationSave(1, T, "ABSENT", FALSE)
         /\ commissions[i].status = "SUSPENDED"
         /\ commissions[i].status_reason = "OVERRIDE")
        => commissions'[i] = commissions[i]

\* C21: suspend_commission changes only CURRENT commissions of the given
\* organisation, reinstate_commission(reason) only commissions SUSPENDED with
\* that reason; a commission suspended with reason OVERRIDE stays as it is
\* through update_verification, and REVOKED and EXPIRED commissions and those
\* of other organisations are never changed.
C21_OnlySelectedCommissions ==
    []OnlySelectedChanged /\ [][OverrideKept]_vars

\* an accepted provider has a commission suspended with reason OVERRIDE:
\* update_verification and reinstate_commission for N/V leave it as it is,
\* reinstate_commission for OVERRIDE makes it CURRENT
C21_Witness ==
    /\ commissions # <<>>
    /\ commissions[1].status = "SUSPENDED"
    /\ commissions[1].status_reason = "OVERRIDE"
    /\ verification[1] # <<>> /\ verification[1][1].accepted
    /\ update_verification(DB, 1, FALSE, utcnow).commissions = commissions
    /\ reinstate_commission(DB, 1, "N/V", utcnow).commissions = commissions
    /\ reinstate_commission(DB, 1, "OVERRIDE", utcnow).commissions[1].status
          = "CURRENT"
    /\ suspend_commission(DB, 2, "N/V", utcnow).commissions = commissions

\* the forms an approver saves in SpecTerminal
ApproverForms ==
    [date : {Absent}, end_date : {1, MaxTime, Absent},
     status : {"ABSENT"}, status_reason : {"ABSENT"}] \cup StatusChangeForms

\* the id the form is submitted with for the commission: 0 for a new one
FormId(record_id) == IF record_id \in DOMAIN commissions THEN record_id ELSE 0

\* the approver's form was saved for the commission (validated, written,
\* onaccept completed)
ApproverSaved(record_id, form) ==
    /\ record_id \in DOMAIN commissions \cup {Len(commissions) + 1}
    /\ ApproverCommissionSave(1, FormId(record_id), form)
    /\ commission_save(DB, 1, FormId(record_id), form, FALSE, utcnow).result
          = "saved"

\* prev_status as commission_onaccept reads it
PrevStatusRead(record_id) ==
    IF record_id \in DOMAIN commissions THEN commissions[record_id].prev_status
    ELSE "None"

\* C22: whenever commission_onaccept finds the status of the commission
\* different from prev_status, it sets status_date to today, runs update_all
\* for the organisation with public = Y if and only if the new status is
\* CURRENT, and notifies the provider, also for a status change by form.
C22_StatusChangeStamped ==
    [][\A record_id \in 1..MaxCommissions, form \in ApproverForms :
          (ApproverSaved(record_id, form)
           /\ commissions'[record_id].status # PrevStatusRead(record_id))
          => /\ commissions'[record_id].status_date = today(utcnow)
             /\ ("update_all_" \o
                   (IF commissions'[record_id].status = "CURRENT"
                    THEN "Y" ELSE "N")) \in
                  commission_save(DB, 1, FormId(record_id), form, FALSE,
                                  utcnow).db.log
             /\ ("notify_" \o commissions'[record_id].status) \in
                  commission_save(DB, 1, FormId(record_id), form, FALSE,
                                  utcnow).db.log]_vars

\* the record as commission_onaccept reads it: the stored record, or the
\* field defaults, with the submitted fields written
RecordRead(record_id, form) ==
    apply_form(IF record_id \in DOMAIN commissions THEN commissions[record_id]
               ELSE new_commission(1, utcnow), form)

\* C23: after commission_onaccept, a commission that was CURRENT or
\* SUSPENDED with an end date before today is EXPIRED with no status reason,
\* whether or not the provider is accepted; a commission with no end date or
\* an end date not before today is never set to EXPIRED.
C23_ExpiredWhenPast ==
    [][\A record_id \in 1..MaxCommissions, form \in ApproverForms :
          ApproverSaved(record_id, form) =>
            /\ (/\ RecordRead(record_id, form).status
                     \in {"CURRENT", "SUSPENDED"}
                /\ RecordRead(record_id, form).end_date # NoDate
                /\ RecordRead(record_id, form).end_date < today(utcnow))
               => /\ commissions'[record_id].status = "EXPIRED"
                  /\ commissions'[record_id].status_reason = "None"
            /\ (/\ RecordRead(record_id, form).status # "EXPIRED"
                /\ (RecordRead(record_id, form).end_date = NoDate
                    \/ RecordRead(record_id, form).end_date >= today(utcnow)))
               => commissions'[record_id].status # "EXPIRED"]_vars

\* the manager has all data, and a recorded hash that no longer matches the
\* personal data
HashMismatch(m) == m.dob /\ m.contact /\ m.dsh # 0 /\ m.dsh # m.pdata

\* update_verification by an actor without the role ORG_GROUP_ADMIN checks
\* the managers of organisation 1
ManagersChecked ==
    /\ 1 \in testgroup
    /\ minforeq(types[1])
    /\ UpdateVerification(1, FALSE)

\* the outcome of the check for a manager whose hash no longer matches
MismatchOutcome(value) ==
    \A i \in DOMAIN managers[1] :
        HashMismatch(managers[1][i]) =>
            /\ \A t \in DocTags : managers'[1][i][t] = value
            /\ managers'[1][i].dsh = 0
            /\ ~check_manager(managers[1][i], FALSE).complete

\* C24 (as stated): when check_mgrinfo finds that the hash of a manager no
\* longer matches the recorded DHASH tag and the actor is not ORG_GROUP_ADMIN,
\* the REGFORM, CRC and SCP tags of the manager are set to REVISE, the DHASH
\* tag is removed and the manager does not count towards COMPLETE.
C24_TagsRevise ==
    [][ManagersChecked => MismatchOutcome("REVISE")]_vars

\* C24 (amended): as C24, with the three tags set to N/A.
C24_TagsNotSpecified ==
    [][ManagersChecked => MismatchOutcome("N/A")]_vars

\* the personal data of an approved manager were changed, and the check has
\* reset the three tags and removed the hash
C24_Witness ==
    /\ 1 \in testgroup
    /\ minforeq(types[1])
    /\ Len(managers[1]) >= 1
    /\ managers[1][1].dob /\ managers[1][1].contact
    /\ \A t \in DocTags : managers[1][1][t] = "N/A"
    /\ managers[1][1].dsh = 0
    /\ verification[1] # <<>>
    /\ verification[1][1].mgrinfo = "REVISE"
    /\ ~verification[1][1].accepted

(***************************************************************************)
(* SpecRace: commission saves of one organisation as concurrent requests:  *)
(* a request may validate while another has validated and not yet written  *)
(***************************************************************************)
NextRace ==
    \/ OrganisationSave(1, {1}, "ABSENT", FALSE)
    \/ \E record_id \in 0..MaxCommissions, form \in DateForms :
          BeginCommissionSave(1, record_id, form, FALSE)
    \/ \E k \in 1..MaxInflight : FinishCommissionSave(k, FALSE)

SpecRace == InitApproval /\ [][NextRace]_vars

\* C25: also when commission saves of one organisation are interleaved (both
\* requests run commission_onvalidation before either writes its record), no
\* two CURRENT or SUSPENDED commissions of an organisation have overlapping
\* intervals once the requests have completed.
C25_NoOverlapInterleaved ==
    inflight = <<>> =>
        \A i, j \in DOMAIN commissions :
            (/\ i < j
             /\ commissions[i].organisation_id = commissions[j].organisation_id
             /\ Active(commissions[i])
             /\ Active(commissions[j]))
            => ~Intersect(commissions[i], commissions[j])

\* C26: after site_approval_onaccept, update_approval or update_all, and for
\* a freshly created default record, a site approval has public = Y if and
\* only if it has no public_reason; public = N always carries a reason.
C26_ReasonIffNotPublic ==
    \A i \in DOMAIN approval :
        /\ approval[i].public \in {"Y", "N"}
        /\ approval[i].public = "Y" <=> approval[i].public_reason = "None"

\* update_approval has taken a fully approved, listed site of an
\* organisation without commission off the list, with reason COMMISSION
C26_Witness ==
    /\ approval # <<>>
    /\ FullyApproved(approval[1])
    /\ approval[1].dhash = "a"
    /\ approval[1].public = "N"
    /\ approval[1].public_reason = "COMMISSION"
    /\ ~HasCurrent(commissions, 1, utcnow)
    /\ HistoryMatches(approval, history, 1)
    /\ \E form \in PublicForms :
          /\ site_approval_save(DB, 1, form).approval[1].public = "Y"
          /\ site_approval_save(DB, 1, form).approval[1].public_reason = "None"

\* log entries of the update_all cascade and of provider notifications
CascadeLog ==
    {"update_all_Y", "update_all_N"} \cup
    {"notify_" \o st : st \in {"CURRENT", "SUSPENDED", "REVOKED", "EXPIRED"}}

\* C27: after commission_onaccept, prev_status of the commission equals its
\* status, and a later save of the commission that does not change its
\* status runs neither the update_all cascade nor a notification.
C27_PrevStatusFollows ==
    [][\A record_id \in 1..MaxCommissions, form \in ApproverForms :
          ApproverSaved(record_id, form) =>
            /\ commissions'[record_id].prev_status
                  = commissions'[record_id].status
            /\ (/\ record_id \in DOMAIN commissions
                /\ commissions'[record_id].status
                      = commissions[record_id].status)
               => commission_save(DB, 1, record_id, form, FALSE,
                                  utcnow).db.log \cap CascadeLog = {}]_vars

\* the commission gets status CURRENT in the step
BecomesCurrent(i) ==
    /\ commissions'[i].status = "CURRENT"
    /\ i \in DOMAIN commissions => commissions[i].status # "CURRENT"

\* C28: no operation (commission save, reinstate_commission directly or via
\* update_verification) sets the status of a commission to CURRENT when its
\* end date is before today.
C28_NoCurrentPastEnd ==
    [][\A i \in DOMAIN commissions' :
          BecomesCurrent(i) =>
             \/ commissions'[i].end_date = NoDate
             \/ commissions'[i].end_date >= today(utcnow)]_vars

(***************************************************************************)
(* SpecLazy: an organisation that has its types (from registration or      *)
(* import) before its verification record is created                       *)
(***************************************************************************)
InitLazy ==
    /\ utcnow = 0
    /\ types \in [Orgs -> {{1}, {2}}]
    /\ testgroup = {}
    /\ managers = [o \in Orgs |-> <<>>]
    /\ verification = [o \in Orgs |-> <<>>]
    /\ commissions = <<>>
    /\ location = [s \in Sites |-> "a"]
    /\ approval = <<>>
    /\ history = <<>>
    /\ inflight = <<>>

NextLazy ==
    \/ \E org \in Orgs : LookupVerification(org, FALSE)
    \/ \E org \in Orgs, T \in {{1}, {2}, {1, 2}},
          orgtype \in {"ABSENT", "N/V", "VERIFIED"} :
          OrganisationSave(org, T, orgtype, FALSE)
    \/ \E org \in Orgs : UpdateVerification(org, FALSE)
    \/ CommissionSave(1, 0, GrantForm, FALSE)

SpecLazy == InitLazy /\ [][NextLazy]_vars

\* the organisation form is saved for organisation 1 with types T and the
\* orgtype value (ABSENT: not submitted), or update_verification is called
\* with nothing written
VerificationUpdated(T, orgtype) ==
    \/ OrganisationSave(1, T, orgtype, FALSE)
    \/ T = types[1] /\ orgtype = "ABSENT" /\ UpdateVerification(1, FALSE)

\* C29: update_verification keeps the orgtype an approver has set while the
\* type set of the organisation is the same as when the verification record
\* was created or last updated, also on the first call after the lazy
\* creation of the record, and resets it to the default of the types after
\* the type set has changed.
C29_ManualOrgtypeKept ==
    [][\A T \in {{1}, {2}, {1, 2}}, orgtype \in {"ABSENT", "N/V", "VERIFIED"} :
          (VerificationUpdated(T, orgtype) /\ verification[1] # <<>>) =>
             verification'[1][1].orgtype =
                IF T # types[1] THEN default_orgtype(T)
                ELSE IF orgtype # "ABSENT" THEN orgtype
                ELSE verification[1][1].orgtype]_vars

\* site 1 is fully approved and off the public list only for lack of a
\* commission
UnlistedForCommission ==
    /\ approval # <<>>
    /\ FullyApproved(approval[1])
    /\ approval[1].public = "N"
    /\ approval[1].public_reason = "COMMISSION"

\* C30: a fully approved site that is off the list only for lack of a
\* commission becomes public = Y with no public_reason at the next
\* update_approval that runs while the organisation holds a current
\* commission.
C30_ListedOnceCommissioned ==
    (/\ UnlistedForCommission
     /\ ~HashOutdated
     /\ HasCurrent(commissions, 1, utcnow))
    => \A admin \in BOOLEAN :
          /\ update_approval(DB, 1, admin, utcnow).approval[1].public = "Y"
          /\ update_approval(DB, 1, admin, utcnow).approval[1].public_reason
                = "None"

====
